---- MODULE Spec2Model ----
(***************************************************************************)
(* PromptDJ MIDI: the prompt grid (PromptDjMidi), its prompt controllers   *)
(* (PromptController) and the wiring done by main().                       *)
(*                                                                         *)
(* Strings that the program trims (the API key, the text typed into a      *)
(* prompt) are sequences of one-character strings.                         *)
(* A weight w is held as the integer 127 * w, so that value / 127 * 2 is   *)
(* the integer 2 * value and the range [0, 2] is 0 .. 254.                 *)
(***************************************************************************)
EXTENDS Integers, Sequences, FiniteSets, TLC

\* ------------------------------------------------------------------ bounds
NumDefaultPrompts == 1      \* how many entries of DEFAULT_PROMPTS are kept
MaxControllers == 2         \* prompt-controller elements ever created
MaxPending == 1             \* outstanding file reads / stopRecording calls
MaxMidiRequests == 1        \* getMidiAccess calls issued in one run

\* --------------------------------------------------------------- constants
MidiMax == 127              \* (value / 127) * 2
StartOnCount == 3           \* .slice(0, 3)

\* an absent value (null) is the empty sequence, a present value v is <<v>>
None == <<>>

Some(v) == <<v>>

Range(s) == {s[i] : i \in 1..Len(s)}

Min(a, b) == IF a < b THEN a ELSE b

Max(a, b) == IF a > b THEN a ELSE b

\* ----------------------------------------------------------------- strings
Space == " "

RECURSIVE TrimStart(_)
TrimStart(s) == IF s # <<>> /\ Head(s) = Space THEN TrimStart(Tail(s)) ELSE s

RECURSIVE TrimEnd(_)
TrimEnd(s) ==
    IF s # <<>> /\ s[Len(s)] = Space THEN TrimEnd(SubSeq(s, 1, Len(s) - 1)) ELSE s

\* String.prototype.trim
Trim(s) == TrimEnd(TrimStart(s))

\* A prompt's text is a TLA+ string; what the user types into #text is a
\* sequence of characters, trimmed as such, and Str names the result.
JazzChars == <<"J", "a", "z", "z">>

Str(chars) == IF chars = JazzChars THEN "Jazz" ELSE ""

\* ------------------------------------------------------------ main: API key
VARIABLES
    pc,              \* where main() is: "getApiKey", "dialog", "haveKey", "running"
    sessionStorage,  \* the item 'gemini-api-key': None or Some(key)
    overlay,         \* the dialog overlay: "none", "open", "invalid", "removed"
    apiKey,          \* None, or Some(key) once getApiKey has resolved
    ai               \* None, or Some(apiKey) once the GoogleGenAI client is built

\* what the user may have typed into #apiKeyInput when the button is clicked
KeyInputs == {<<>>, <<" ">>, <<" ", " ">>, <<"k">>, <<" ", "k", " ">>, <<"k", " ", "y">>}

\* what an earlier page of the same tab may have left in session storage
StoredKeys == {None, Some(<<>>), Some(<<"k">>)}

\* --------------------------------------------------------------- the prompts
\* the first entries of DEFAULT_PROMPTS
DEFAULT_PROMPTS == <<
    [color |-> "#9900ff", text |-> "Bossa Nova"],
    [color |-> "#5200ff", text |-> "Chillwave"],
    [color |-> "#ff25f6", text |-> "Drum and Bass"],
    [color |-> "#2af6de", text |-> "Post Punk"] >>

DefaultPrompts == SubSeq(DEFAULT_PROMPTS, 1, NumDefaultPrompts)

\* `prompt-${i}`, i counted from 0
PromptIdOf == <<"prompt-0", "prompt-1", "prompt-2", "prompt-3">>

\* the weight 1, and the weight 2
One == MidiMax

Two == 2 * MidiMax

\* A Map<string, Prompt> is the sequence of its entries [key, value] in
\* insertion order.
\* Map.get: the position of the key, 0 when absent
IndexOf(ps, key) ==
    IF \E i \in 1..Len(ps) : ps[i].key = key
    THEN CHOOSE i \in 1..Len(ps) : ps[i].key = key
    ELSE 0

\* Map.set: an existing key keeps its position, a new key goes last
MapSet(ps, key, value) ==
    IF IndexOf(ps, key) = 0 THEN Append(ps, [key |-> key, value |-> value])
    ELSE [ps EXCEPT ![IndexOf(ps, key)].value = value]

\* [...map.values()]
Values(ps) == [i \in 1..Len(ps) |-> ps[i].value]

\* the loop of buildInitialPrompts from its i-th round on (i counted from 1);
\* startOn: the indices of the entries the shuffle put first
RECURSIVE InitialPromptsFrom(_, _, _)
InitialPromptsFrom(i, ps, startOn) ==
    IF i > Len(DefaultPrompts) THEN ps
    ELSE LET promptId == PromptIdOf[i] IN
         InitialPromptsFrom(i + 1,
             MapSet(ps, promptId,
                 [promptId |-> promptId,
                  text |-> DefaultPrompts[i].text,
                  weight |-> IF i \in startOn THEN One ELSE 0,
                  cc |-> i - 1,
                  color |-> DefaultPrompts[i].color]),
             startOn)

buildInitialPrompts(startOn) == InitialPromptsFrom(1, <<>>, startOn)

StartOnChoices ==
    {S \in SUBSET (1..Len(DefaultPrompts)) :
        Cardinality(S) = Min(StartOnCount, Len(DefaultPrompts))}

VARIABLES
    prompts,         \* PromptDjMidi.prompts
    helperPrompts,   \* the argument of the last liveMusicHelper.setWeightedPrompts call
    controllers,     \* every prompt-controller created, in creation order, which is
                     \* the order of their cc-message listeners; pos is the place
                     \* in the grid, 0 once removed from it
    showMidi,
    midiRequests,    \* the getMidiAccess calls: "pending", "ok" or "failed"
    playbackState,
    isRecording,
    stops,           \* liveMusicHelper.stopRecording calls not yet settled
    reads,           \* FileReader reads not yet settled: the files' contents
    inputValue,      \* #load-set-input's value
    events,          \* the events dispatched by the last step, in order
    toasts,          \* the toastMessage.show calls of the last step, in order
    op               \* the last step: its handler and, for button.onclick, a
                     \* cc-message and reader.onload, its input

vars == <<pc, sessionStorage, overlay, apiKey, ai, prompts, helperPrompts, controllers,
          showMidi, midiRequests, playbackState, isRecording, stops, reads,
          inputValue, events, toasts, op>>

\* ------------------------------------------------------ events and listeners
Event(target, type, detail) == [target |-> target, type |-> type, detail |-> detail]

\* errorToast added to the session helper alone
ErrorToastHelperOnly == {"liveMusicHelper"}

\* main: liveMusicHelper.addEventListener('error', errorToast);
\*       pdjMidi.addEventListener('error', errorToast);
ErrorToastTargets == {"liveMusicHelper", "pdjMidi"}

\* main: pdjMidi.addEventListener('info', infoToast);
InfoToastTargets == {"pdjMidi"}

\* errorToast / infoToast: the toastMessage.show calls one event leads to
ToastsOf(e) ==
    IF e.type = "error" /\ e.target \in ErrorToastTargets THEN <<e.detail>>
    ELSE IF e.type = "info" /\ e.target \in InfoToastTargets THEN <<e.detail>>
    ELSE <<>>

RECURSIVE ToastsFor(_)
ToastsFor(evs) == IF evs = <<>> THEN <<>> ELSE ToastsOf(Head(evs)) \o ToastsFor(Tail(evs))

\* a 'prompts-changed' listener that does not pass the prompts on
OnPromptsChangedDropped(helper, e) == helper

\* main's 'prompts-changed' listener: liveMusicHelper.setWeightedPrompts(e.detail)
OnPromptsChanged(helper, e) == e.detail

\* --------------------------------------------------- PromptDjMidi: the grid
\* The grid's side of a step: g = [prompts, helper, events].
\* handlePromptChanged storing the prompt under its text
handlePromptChangedKeyedByText(g, detail) ==
    LET i == IndexOf(g.prompts, detail.promptId) IN
    IF i = 0 THEN g
    ELSE LET prompt == [g.prompts[i].value EXCEPT !.text = detail.text,
                                                    !.weight = detail.weight,
                                                    !.cc = detail.cc]
             newPrompts == MapSet(g.prompts, detail.text, prompt)
             e == Event("pdjMidi", "prompts-changed", newPrompts)
         IN [prompts |-> newPrompts,
             helper |-> OnPromptsChanged(g.helper, e),
             events |-> Append(g.events, e)]

\* handlePromptChanged, with main's 'prompts-changed' listener run by dispatchEvent
handlePromptChanged(g, detail) ==
    LET i == IndexOf(g.prompts, detail.promptId) IN
    IF i = 0 THEN g     \* console.error('prompt not found'); return
    ELSE LET prompt == [g.prompts[i].value EXCEPT !.text = detail.text,
                                                    !.weight = detail.weight,
                                                    !.cc = detail.cc]
             newPrompts == MapSet(g.prompts, detail.promptId, prompt)
             e == Event("pdjMidi", "prompts-changed", newPrompts)
         IN [prompts |-> newPrompts,
             helper |-> OnPromptsChanged(g.helper, e),
             events |-> Append(g.events, e)]

\* ------------------------------------------------------- PromptController
\* a 'prompt-changed' event of the controller of creation index k
ControllerEvent(k, detail) ==
    [target |-> "controller", type |-> "prompt-changed", detail |-> detail, from |-> k]

\* dispatchPromptChange: the event, then the grid's @prompt-changed listener
dispatchPromptChange(g, k, c) ==
    LET detail == [promptId |-> c.promptId, text |-> c.text, weight |-> c.weight,
                   cc |-> c.cc, color |-> c.color]
    IN handlePromptChanged(
           [g EXCEPT !.events = Append(@, ControllerEvent(k, detail))], detail)

\* firstUpdated: a new element bound to prompt p at place i of the grid
NewController(p, i) ==
    [promptId |-> p.promptId, text |-> p.text, weight |-> p.weight, cc |-> p.cc,
     color |-> p.color, learnMode |-> FALSE, lastValidText |-> p.text, pos |-> i]

\* One attribute binding of renderPrompts: the attribute is written, and the
\* element's property with it, only when the value differs from the one the
\* binding wrote at the last render.
Bind(property, committed, value) == IF value # committed THEN value ELSE property

\* The grid's update after a step: renderPrompts maps the prompts to
\* prompt-controller templates by position, so the element at place i is kept and
\* rebound, elements past the end of the map are removed (their cc-message
\* listeners stay registered: connectedCallback adds them and nothing removes
\* them), and new elements are made for new places.  PromptController.update
\* ends learn mode when showCC has become false.
Render(ctrls, oldMap, newMap, oldShow, newShow) ==
    LET oldPrompts == Values(oldMap)
        newPrompts == Values(newMap)
        n == Len(newPrompts)
        m == Len(oldPrompts)
        kept == [k \in 1..Len(ctrls) |->
            LET c == ctrls[k] IN
            IF c.pos = 0 THEN c
            ELSE IF c.pos > n THEN [c EXCEPT !.pos = 0]
            ELSE LET old == oldPrompts[c.pos]
                     new == newPrompts[c.pos]
                 IN [c EXCEPT
                        !.promptId = Bind(@, old.promptId, new.promptId),
                        !.cc = Bind(@, old.cc, new.cc),
                        !.text = Bind(@, old.text, new.text),
                        !.weight = Bind(@, old.weight, new.weight),
                        !.color = Bind(@, old.color, new.color),
                        !.learnMode = IF oldShow /\ ~newShow THEN FALSE ELSE @]]
        made == [j \in 1..Max(0, n - m) |-> NewController(newPrompts[m + j], m + j)]
    IN kept \o made

\* the controllers in the grid
Live(ctrls) == {k \in 1..Len(ctrls) : ctrls[k].pos > 0}

\* ------------------------------------------------------------------- steps
\* the grid's side before a step
Grid == [prompts |-> prompts, helper |-> helperPrompts, events |-> <<>>]

\* The end of a step inside the grid: the fields the handlers wrote, the toasts
\* of the events they dispatched, and the update that follows.
Commit(g, ctrls, show) ==
    /\ prompts' = g.prompts
    /\ helperPrompts' = g.helper
    /\ events' = g.events
    /\ toasts' = ToastsFor(g.events)
    /\ showMidi' = show
    /\ controllers' = Render(ctrls, prompts, g.prompts, showMidi, show)

Emit(g, e) == [g EXCEPT !.events = Append(@, e)]

Init ==
    /\ pc = "getApiKey"
    /\ sessionStorage \in StoredKeys
    /\ overlay = "none"
    /\ apiKey = None
    /\ ai = None
    /\ prompts = <<>>
    /\ helperPrompts = <<>>
    /\ controllers = <<>>
    /\ showMidi = FALSE
    /\ midiRequests = <<>>
    /\ playbackState = "stopped"
    /\ isRecording = FALSE
    /\ stops = 0
    /\ reads = <<>>
    /\ inputValue = ""
    /\ events = <<>>
    /\ toasts = <<>>
    /\ op = [name |-> "init"]

gridVars == <<prompts, helperPrompts, controllers, showMidi, midiRequests,
              playbackState, isRecording, stops, reads, inputValue, events, toasts>>

\* a test for null alone, in place of !key
FalsyNullOnly(key) == key = None

\* !key
Falsy(key) == key = None \/ key = Some(<<>>)

\* getApiKey, up to its await
getApiKey ==
    /\ pc = "getApiKey"
    /\ IF Falsy(sessionStorage)
       THEN /\ pc' = "dialog"
            /\ overlay' = "open"
            /\ apiKey' = apiKey
       ELSE /\ pc' = "haveKey"
            /\ apiKey' = sessionStorage
            /\ overlay' = overlay
    /\ op' = [name |-> "getApiKey"]
    /\ UNCHANGED <<sessionStorage, ai, gridVars>>

\* createApiKeyDialog: button.onclick with input.value = value
buttonOnclick(value) ==
    /\ pc = "dialog"
    /\ LET key == Trim(value) IN
       IF key # <<>>
       THEN /\ sessionStorage' = Some(key)
            /\ overlay' = "removed"
            /\ apiKey' = Some(key)
            /\ pc' = "haveKey"
       ELSE /\ overlay' = "invalid"
            /\ UNCHANGED <<sessionStorage, apiKey, pc>>
    /\ op' = [name |-> "button.onclick", value |-> value]
    /\ UNCHANGED <<ai, gridVars>>

\* main, after await getApiKey()
main ==
    /\ pc = "haveKey"
    /\ \E startOn \in StartOnChoices :
          LET initialPrompts == buildInitialPrompts(startOn) IN
          /\ prompts' = initialPrompts
          /\ helperPrompts' = initialPrompts
          /\ controllers' = Render(<<>>, <<>>, initialPrompts, FALSE, FALSE)
    /\ ai' = apiKey
    /\ pc' = "running"
    /\ op' = [name |-> "main"]
    /\ UNCHANGED <<sessionStorage, overlay, apiKey, showMidi, midiRequests,
                   playbackState, isRecording, stops, reads, inputValue, events, toasts>>

mainVars == <<pc, sessionStorage, overlay, apiKey, ai>>

\* ------------------------------------------------ steps of a prompt-controller
\* normalizedY * 2 for the pointer positions tried: below the slider and
\* above it
SliderYs == {0 - MidiMax, 3 * MidiMax}

\* updateWeightFromEvent's weight
ClampWeight(y) == Max(0, Min(Two, y))

\* handlePointerDown / handlePointerMove on the controller of index k
updateWeightFromEvent(k, y) ==
    /\ pc = "running"
    /\ k \in Live(controllers)
    /\ LET c == [controllers[k] EXCEPT !.weight = ClampWeight(y)] IN
       Commit(dispatchPromptChange(Grid, k, c), [controllers EXCEPT ![k] = c], showMidi)
    /\ op' = [name |-> "updateWeightFromEvent"]
    /\ UNCHANGED <<mainVars, midiRequests, playbackState, isRecording, stops, reads,
                   inputValue>>

\* #text's content when it loses focus
TextContents == {<<" ">>, <<" ">> \o JazzChars \o <<" ">>}

\* updateText
TextUpdated(c, textContent) ==
    LET newText == Trim(textContent) IN
    IF newText = <<>> THEN [c EXCEPT !.text = c.lastValidText]
    ELSE [c EXCEPT !.text = Str(newText), !.lastValidText = Str(newText)]

\* @blur on the controller of index k
updateText(k, textContent) ==
    /\ pc = "running"
    /\ k \in Live(controllers)
    /\ LET c == TextUpdated(controllers[k], textContent) IN
       Commit(dispatchPromptChange(Grid, k, c), [controllers EXCEPT ![k] = c], showMidi)
    /\ op' = [name |-> "updateText"]
    /\ UNCHANGED <<mainVars, midiRequests, playbackState, isRecording, stops, reads,
                   inputValue>>

\* a click on #midi, which is visible only with showCC
toggleLearnMode(k) ==
    /\ pc = "running"
    /\ k \in Live(controllers)
    /\ showMidi
    /\ controllers' = [controllers EXCEPT ![k].learnMode = ~@]
    /\ events' = <<>>
    /\ toasts' = <<>>
    /\ op' = [name |-> "toggleLearnMode"]
    /\ UNCHANGED <<mainVars, prompts, helperPrompts, showMidi, midiRequests,
                   playbackState, isRecording, stops, reads, inputValue>>

\* the controller numbers and values of the cc-messages tried
CCs == {0, 1}

MidiValues == {0, MidiMax}

\* the cc-message listener of one controller: the controller after it, and
\* whether it called dispatchPromptChange
ccListener(c, cc, value) ==
    IF c.learnMode
    THEN [c |-> [c EXCEPT !.cc = cc, !.learnMode = FALSE], dispatch |-> TRUE]
    ELSE IF cc = c.cc
    THEN [c |-> [c EXCEPT !.weight = 2 * value], dispatch |-> TRUE]
    ELSE [c |-> c, dispatch |-> FALSE]

\* midiDispatcher's dispatchEvent: the listeners from the k-th on, in the order
\* they were added; st = [ctrls, g]
RECURSIVE ccListeners(_, _, _, _)
ccListeners(k, st, cc, value) ==
    IF k > Len(st.ctrls) THEN st
    ELSE LET r == ccListener(st.ctrls[k], cc, value)
             g == IF r.dispatch THEN dispatchPromptChange(st.g, k, r.c) ELSE st.g
         IN ccListeners(k + 1, [ctrls |-> [st.ctrls EXCEPT ![k] = r.c], g |-> g],
                        cc, value)

\* a control change from the MIDI input, once MIDI access was granted
ccMessage(cc, value) ==
    /\ pc = "running"
    /\ \E i \in 1..Len(midiRequests) : midiRequests[i] = "ok"
    /\ LET st == ccListeners(1, [ctrls |-> controllers, g |-> Grid], cc, value) IN
       Commit(st.g, st.ctrls, showMidi)
    /\ op' = [name |-> "cc-message", cc |-> cc, value |-> value]
    /\ UNCHANGED <<mainVars, midiRequests, playbackState, isRecording, stops, reads,
                   inputValue>>

\* ------------------------------------------------------ steps of the grid
\* toggleShowMidi and setShowMidi(show), up to the await
toggleShowMidi ==
    /\ pc = "running"
    /\ LET show == ~showMidi IN
       /\ show => Len(midiRequests) < MaxMidiRequests
       /\ midiRequests' = IF show THEN Append(midiRequests, "pending") ELSE midiRequests
       /\ Commit(Grid, controllers, show)
    /\ op' = [name |-> "toggleShowMidi"]
    /\ UNCHANGED <<mainVars, playbackState, isRecording, stops, reads, inputValue>>

\* e.message of a rejected getMidiAccess
MidiErrors == {"Unable to acquire MIDI access."}

\* setShowMidi after the await: the i-th getMidiAccess call resolves
midiAccessResolved(i) ==
    /\ pc = "running"
    /\ i \in 1..Len(midiRequests)
    /\ midiRequests[i] = "pending"
    /\ midiRequests' = [midiRequests EXCEPT ![i] = "ok"]
    /\ Commit(Grid, controllers, showMidi)
    /\ op' = [name |-> "midiAccessResolved"]
    /\ UNCHANGED <<mainVars, playbackState, isRecording, stops, reads, inputValue>>

\* a catch that leaves showMidi as it is
showMidiKept(show) == show

\* setShowMidi's catch: this.showMidi = false
showMidiAfterRejection(show) == FALSE

\* setShowMidi's catch: the i-th getMidiAccess call rejects
midiAccessRejected(i, message) ==
    /\ pc = "running"
    /\ i \in 1..Len(midiRequests)
    /\ midiRequests[i] = "pending"
    /\ midiRequests' = [midiRequests EXCEPT ![i] = "failed"]
    /\ Commit(Emit(Grid, Event("pdjMidi", "error", message)), controllers,
              showMidiAfterRejection(showMidi))
    /\ op' = [name |-> "midiAccessRejected"]
    /\ UNCHANGED <<mainVars, playbackState, isRecording, stops, reads, inputValue>>

PlaybackStates == {"stopped", "playing", "loading", "paused"}

\* main's 'playback-state-changed' listener
playbackStateChanged(state) ==
    /\ pc = "running"
    /\ playbackState' = state
    /\ events' = <<Event("liveMusicHelper", "playback-state-changed", state)>>
    /\ toasts' = ToastsFor(events')
    /\ op' = [name |-> "playback-state-changed"]
    /\ UNCHANGED <<mainVars, prompts, helperPrompts, controllers, showMidi,
                   midiRequests, isRecording, stops, reads, inputValue>>

\* a click on the play-pause button
playPause ==
    /\ pc = "running"
    /\ events' = <<Event("pdjMidi", "play-pause", "")>>
    /\ toasts' = ToastsFor(events')
    /\ op' = [name |-> "playPause"]
    /\ UNCHANGED <<mainVars, prompts, helperPrompts, controllers, showMidi,
                   midiRequests, playbackState, isRecording, stops, reads, inputValue>>

\* a test that refuses only the stopped state
CanRecordUnlessStopped(state) == state # "stopped"

\* handleRecordClick's test of the playback state
CanRecord(state) == ~(state # "playing" /\ state # "loading")

\* handleRecordClick, with main's 'stop-recording' listener up to its await
handleRecordClick ==
    /\ pc = "running"
    /\ IF isRecording
       THEN /\ stops < MaxPending
            /\ events' = <<Event("pdjMidi", "stop-recording", "")>>
            /\ stops' = stops + 1
            /\ isRecording' = FALSE
       ELSE IF ~CanRecord(playbackState)
       THEN /\ events' = <<Event("pdjMidi", "error",
                                 "Please start playback before recording.")>>
            /\ UNCHANGED <<stops, isRecording>>
       ELSE /\ events' = <<Event("pdjMidi", "start-recording", "")>>
            /\ isRecording' = TRUE
            /\ stops' = stops
    /\ toasts' = ToastsFor(events')
    /\ op' = [name |-> "handleRecordClick"]
    /\ UNCHANGED <<mainVars, prompts, helperPrompts, controllers, showMidi,
                   midiRequests, playbackState, reads, inputValue>>

\* main's 'stop-recording' listener after the await, and downloadRecording
stopRecordingResolved(audioBlob) ==
    /\ pc = "running"
    /\ stops > 0
    /\ stops' = stops - 1
    /\ events' = IF audioBlob THEN <<Event("pdjMidi", "info", "Recording saved!")>>
                 ELSE <<>>
    /\ toasts' = ToastsFor(events')
    /\ op' = [name |-> "stopRecordingResolved"]
    /\ UNCHANGED <<mainVars, prompts, helperPrompts, controllers, showMidi,
                   midiRequests, playbackState, isRecording, reads, inputValue>>

\* the detail of an 'error' event of liveMusicHelper
HelperErrors == {"Connection error, please restart audio."}

\* liveMusicHelper dispatches 'error'
helperError(message) ==
    /\ pc = "running"
    /\ events' = <<Event("liveMusicHelper", "error", message)>>
    /\ toasts' = ToastsFor(events')
    /\ op' = [name |-> "helperError"]
    /\ UNCHANGED <<mainVars, prompts, helperPrompts, controllers, showMidi,
                   midiRequests, playbackState, isRecording, stops, reads, inputValue>>

\* ------------------------------------------------------------- loading a set
\* An entry of a parsed array: None for null, else Some(prompt); a missing or
\* empty promptId or text is "".
Entry(promptId, text, weight, cc) ==
    Some([promptId |-> promptId, text |-> text, weight |-> weight, cc |-> cc,
          color |-> "#ffffff"])

Array(entries) == [kind |-> "array", entries |-> entries]

\* files that pass the validation: one prompt; two prompts, one of them with
\* a weight of 5
SetFiles == {
    Array(<<Entry("prompt-1", "Jazz", One, 0)>>),
    Array(<<Entry("prompt-0", "Bossa Nova", 5 * MidiMax, 0),
            Entry("prompt-1", "Chillwave", One, 1)>>) }

\* more of them: no prompt; the same promptId twice
MoreSetFiles == {
    Array(<<>>),
    Array(<<Entry("prompt-0", "Jazz", 0, 1), Entry("prompt-0", "Chillwave", Two, 1)>>) }

\* files that fail it: text that is no JSON, JSON that is no array, an entry
\* without promptId, an entry without text, a null entry
BadFiles == {
    [kind |-> "text"],
    [kind |-> "object"],
    Array(<<Entry("prompt-0", "Jazz", One, 0), Entry("", "Jazz", One, 1)>>),
    Array(<<Entry("prompt-0", "", One, 0)>>),
    Array(<<Entry("prompt-0", "Jazz", One, 0), None>>) }

Files == SetFiles \cup MoreSetFiles \cup BadFiles

\* loadedPrompts.some(p => !p.promptId || !p.text): "invalid" when some entry
\* fails the test, "TypeError" when a null entry is reached first, else "ok"
RECURSIVE Validate(_)
Validate(entries) ==
    IF entries = <<>> THEN "ok"
    ELSE IF Head(entries) = None THEN "TypeError"
    ELSE IF Head(entries)[1].promptId = "" \/ Head(entries)[1].text = "" THEN "invalid"
    ELSE Validate(Tail(entries))

\* the try block up to the map: "ok", or the message of what was thrown
Parse(file) ==
    IF file.kind = "text" THEN "Error loading set: (the SyntaxError's message)"
    ELSE IF file.kind # "array" THEN "Error loading set: Invalid set file format."
    ELSE IF Validate(file.entries) = "invalid"
    THEN "Error loading set: Invalid set file format."
    ELSE IF Validate(file.entries) = "TypeError"
    THEN "Error loading set: (the TypeError's message)"
    ELSE "ok"

\* loadedPrompts.forEach(p => newPrompts.set(p.promptId, p))
RECURSIVE SetAll(_, _)
SetAll(ps, entries) ==
    IF entries = <<>> THEN ps
    ELSE SetAll(MapSet(ps, Head(entries)[1].promptId, Head(entries)[1]), Tail(entries))

\* a load that adds the loaded prompts to the map it finds
LoadSetMerging(g, file) ==
    IF Parse(file) = "ok"
    THEN LET newPrompts == SetAll(g.prompts, file.entries)
             e == Event("pdjMidi", "prompts-changed", newPrompts)
         IN [prompts |-> newPrompts,
             helper |-> OnPromptsChanged(g.helper, e),
             events |-> g.events \o
                 <<e, Event("pdjMidi", "info", "Set loaded successfully!")>>]
    ELSE Emit(g, Event("pdjMidi", "error", Parse(file)))

\* reader.onload's try block on the grid
LoadSet(g, file) ==
    IF Parse(file) = "ok"
    THEN LET newPrompts == SetAll(<<>>, file.entries)
             e == Event("pdjMidi", "prompts-changed", newPrompts)
         IN [prompts |-> newPrompts,
             helper |-> OnPromptsChanged(g.helper, e),
             events |-> g.events \o
                 <<e, Event("pdjMidi", "info", "Set loaded successfully!")>>]
    ELSE Emit(g, Event("pdjMidi", "error", Parse(file)))

\* handleLoadSet: a 'change' event of #load-set-input with no file chosen
handleLoadSetNoFile ==
    /\ pc = "running"
    /\ events' = <<>>
    /\ toasts' = <<>>
    /\ op' = [name |-> "handleLoadSet"]
    /\ UNCHANGED <<mainVars, prompts, helperPrompts, controllers, showMidi,
                   midiRequests, playbackState, isRecording, stops, reads, inputValue>>

\* handleLoadSet: a 'change' event with a file chosen, up to reader.readAsText
handleLoadSet(file) ==
    /\ pc = "running"
    /\ Len(reads) < MaxPending
    /\ reads' = Append(reads, file)
    /\ inputValue' = "promptdj-set.json"
    /\ events' = <<>>
    /\ toasts' = <<>>
    /\ op' = [name |-> "handleLoadSet"]
    /\ UNCHANGED <<mainVars, prompts, helperPrompts, controllers, showMidi,
                   midiRequests, playbackState, isRecording, stops>>

Without(seq, i) == SubSeq(seq, 1, i - 1) \o SubSeq(seq, i + 1, Len(seq))

\* reader.onload of the i-th read
readerOnload(i) ==
    /\ pc = "running"
    /\ i \in 1..Len(reads)
    /\ LET g == LoadSet(Grid, reads[i]) IN
       /\ Len(controllers) + Max(0, Len(g.prompts) - Len(prompts)) <= MaxControllers
       /\ Commit(g, controllers, showMidi)
    /\ inputValue' = ""
    /\ reads' = Without(reads, i)
    /\ op' = [name |-> "reader.onload", file |-> reads[i]]
    /\ UNCHANGED <<mainVars, midiRequests, playbackState, isRecording, stops>>

\* reader.onerror of the i-th read
readerOnerror(i) ==
    /\ pc = "running"
    /\ i \in 1..Len(reads)
    /\ reads' = Without(reads, i)
    /\ events' = <<Event("pdjMidi", "error", "Failed to read the file.")>>
    /\ toasts' = ToastsFor(events')
    /\ op' = [name |-> "reader.onerror"]
    /\ UNCHANGED <<mainVars, prompts, helperPrompts, controllers, showMidi,
                   midiRequests, playbackState, isRecording, stops, inputValue>>

\* ------------------------------------------------------------ specification
\* main, from the start of the page to the wiring of the listeners
KeySteps ==
    \/ getApiKey
    \/ \E value \in KeyInputs : buttonOnclick(value)
    \/ main

\* the user's and the MIDI input's steps on the prompt controllers
ControllerSteps ==
    \/ \E k \in 1..MaxControllers, y \in SliderYs : updateWeightFromEvent(k, y)
    \/ \E k \in 1..MaxControllers, t \in TextContents : updateText(k, t)
    \/ \E k \in 1..MaxControllers : toggleLearnMode(k)
    \/ \E cc \in CCs, value \in MidiValues : ccMessage(cc, value)

MidiSteps ==
    \/ toggleShowMidi
    \/ \E i \in 1..MaxMidiRequests : midiAccessResolved(i)
    \/ \E i \in 1..MaxMidiRequests, m \in MidiErrors : midiAccessRejected(i, m)

\* playback, recording and the session helper's errors
TransportSteps ==
    \/ \E state \in PlaybackStates : playbackStateChanged(state)
    \/ playPause
    \/ handleRecordClick
    \/ \E b \in BOOLEAN : stopRecordingResolved(b)
    \/ \E m \in HelperErrors : helperError(m)

LoadSteps(files) ==
    \/ handleLoadSetNoFile
    \/ \E file \in files : handleLoadSet(file)
    \/ \E i \in 1..MaxPending : readerOnload(i)
    \/ \E i \in 1..MaxPending : readerOnerror(i)

Next == KeySteps \/ ControllerSteps \/ MidiSteps \/ TransportSteps \/ LoadSteps(Files)

\* the whole program
Spec == Init /\ [][Next]_vars

\* TransportSteps alone write playbackState, isRecording and stops, and no other
\* step reads them; ControllerSteps alone read or write a controller's weight,
\* text, cc and learn mode outside a render; the steps of LoadSteps read no
\* field that MidiSteps or TransportSteps write.  Each specification below
\* leaves out steps that the claims checked under it do not involve.

NextButtons == KeySteps \/ MidiSteps \/ TransportSteps

\* the API key, the MIDI button, playback and recording
SpecButtons == Init /\ [][NextButtons]_vars

NextGrid == KeySteps \/ MidiSteps \/ TransportSteps \/ LoadSteps(BadFiles)

\* every step that dispatches an 'error' event
SpecGrid == Init /\ [][NextGrid]_vars

NextLoad == KeySteps \/ LoadSteps(Files)

\* loading sets
SpecLoad == Init /\ [][NextLoad]_vars

NextPrompts ==
    \/ KeySteps
    \/ ControllerSteps
    \/ MidiSteps
    \/ \E file \in SetFiles : handleLoadSet(file)
    \/ \E i \in 1..MaxPending : readerOnload(i)

\* the prompts: the grid's map, the controllers and the session helper's copy
SpecPrompts == Init /\ [][NextPrompts]_vars

\* ------------------------------------------------------------------- claims
Count(seq, x) == Cardinality({i \in 1..Len(seq) : seq[i] = x})

Spaces(n) == [i \in 1..n |-> Space]

\* key is value without the spaces at its two ends
IsTrimOf(key, value) ==
    /\ key # <<>> => Head(key) # Space /\ key[Len(key)] # Space
    /\ \E a, b \in 0..Len(value) : value = Spaces(a) \o key \o Spaces(b)

\* whether the grid, the AI client and the session helper exist
AppExists == ai # None \/ prompts # <<>> \/ controllers # <<>> \/ helperPrompts # <<>>

\* C5: the application is created only with an API key: while the dialog is
\* open nothing of it exists; a click with an empty or all-space input leaves
\* the dialog open, stores nothing and does not resolve; a click with any other
\* input stores the input without the spaces at its ends under
\* 'gemini-api-key' and resolves with it; the application is built with the
\* key that is stored, which is not empty.
C5_KeyBeforeApp ==
    /\ AppExists => pc = "running"
    /\ pc \in {"haveKey", "running"} =>
          /\ apiKey # None /\ apiKey[1] # <<>>
          /\ sessionStorage = apiKey
    /\ pc = "running" => ai = apiKey
    /\ pc \in {"getApiKey", "dialog"} => apiKey = None
    /\ pc = "dialog" =>
          overlay \in {"open", "invalid"} /\ sessionStorage \in {None, Some(<<>>)}
    /\ op.name = "button.onclick" =>
          IF \A i \in 1..Len(op.value) : op.value[i] = Space
          THEN pc = "dialog" /\ overlay = "invalid"
          ELSE /\ pc = "haveKey" /\ overlay = "removed"
               /\ IsTrimOf(sessionStorage[1], op.value)

\* the application runs on a key typed with spaces around it
C5_Witness ==
    /\ pc = "running"
    /\ overlay = "removed"
    /\ ai = Some(<<"k">>)
    /\ prompts # <<>>

Pending(requests) == {i \in 1..Len(requests) : requests[i] = "pending"}

ErrorEvents(evs) == {i \in 1..Len(evs) : evs[i].type = "error"}

RecordError == "Please start playback before recording."

\* C4: a click on Record while not recording and with playback neither playing
\* nor loading dispatches the 'error' event and nothing else and leaves
\* isRecording false; 'start-recording' is dispatched only while playback is
\* playing or loading.
C4_RecordNeedsPlayback ==
    /\ [][op'.name = "handleRecordClick" /\ ~isRecording
            /\ playbackState \notin {"playing", "loading"} =>
               /\ events' = <<Event("pdjMidi", "error", RecordError)>>
               /\ ~isRecording']_vars
    /\ [][(\E i \in 1..Len(events') : events'[i].type = "start-recording") =>
               playbackState \in {"playing", "loading"}]_vars

\* a refused click on Record
C4_Witness ==
    /\ op.name = "handleRecordClick"
    /\ events = <<Event("pdjMidi", "error", RecordError)>>
    /\ playbackState = "paused"
    /\ ~isRecording

\* C1: the toasts of a step are exactly the details of its 'error' and 'info'
\* events, one each and in order, so that every 'error' event of the grid or of
\* the session helper is shown once; a step that dispatches an 'error' event
\* issues no new getMidiAccess call and no new file read, and starts no
\* recording.
C1_ErrorsAreToasted ==
    /\ [](\A i \in ErrorEvents(events) :
             /\ events[i].target \in {"pdjMidi", "liveMusicHelper"}
             /\ Count(toasts, events[i].detail) = 1
             /\ Cardinality({j \in ErrorEvents(events) :
                                events[j].detail = events[i].detail}) = 1)
    /\ [](Len(toasts) = Cardinality({i \in 1..Len(events) :
                                        events[i].type \in {"error", "info"}}))
    /\ [][ErrorEvents(events') # {} =>
             /\ Len(midiRequests') = Len(midiRequests)
             /\ Pending(midiRequests') \subseteq Pending(midiRequests)
             /\ Len(reads') <= Len(reads)
             /\ isRecording' = isRecording]_vars

\* a rejected getMidiAccess call was shown
C1_Witness ==
    /\ op.name = "midiAccessRejected"
    /\ toasts = <<"Unable to acquire MIDI access.">>

Types(evs) == [i \in 1..Len(evs) |-> evs[i].type]

\* whether the file is one the claim says is refused
Refused(file) ==
    \/ file.kind # "array"
    \/ \E i \in 1..Len(file.entries) :
          \/ file.entries[i] = None
          \/ file.entries[i][1].promptId = ""
          \/ file.entries[i][1].text = ""

Loaded(file) == {file.entries[i][1] : i \in 1..Len(file.entries)}

\* the last entry of the file with this promptId
LastWith(file, promptId) ==
    LET js == {j \in 1..Len(file.entries) : file.entries[j][1].promptId = promptId}
    IN file.entries[CHOOSE j \in js : \A h \in js : h <= j][1]

\* C9 as stated: a refused file leaves the map as it is and dispatches one
\* 'error' event and nothing else; any other file replaces the map by exactly
\* the loaded entries and dispatches 'prompts-changed', then 'info'; the file
\* input is reset in both cases.
C9_AllOrNothing ==
    [][op'.name = "reader.onload" =>
        /\ inputValue' = ""
        /\ IF Refused(op'.file)
           THEN prompts' = prompts /\ Types(events') = <<"error">>
           ELSE /\ {prompts'[i].value : i \in 1..Len(prompts')} = Loaded(op'.file)
                /\ Len(prompts') = Len(op'.file.entries)
                /\ Types(events') = <<"prompts-changed", "info">>]_vars

\* C9 as amended: any other file replaces the map by one entry for each
\* promptId of the file, the last entry of the file with that promptId.
C9_AllOrNothingByPromptId ==
    [][op'.name = "reader.onload" =>
        /\ inputValue' = ""
        /\ IF Refused(op'.file)
           THEN prompts' = prompts /\ Types(events') = <<"error">>
           ELSE /\ \A i \in 1..Len(prompts') :
                      /\ prompts'[i].value \in Loaded(op'.file)
                      /\ prompts'[i].value = LastWith(op'.file, prompts'[i].key)
                      /\ \A j \in 1..Len(prompts') :
                             prompts'[j].key = prompts'[i].key => j = i
                /\ \A p \in Loaded(op'.file) :
                      \E i \in 1..Len(prompts') : prompts'[i].key = p.promptId
                /\ Types(events') = <<"prompts-changed", "info">>]_vars

\* a file with the same promptId twice was loaded
C9_Witness ==
    /\ op.name = "reader.onload"
    /\ ~Refused(op.file)
    /\ Len(op.file.entries) = 2
    /\ Len(prompts) = 1
    /\ Types(events) = <<"prompts-changed", "info">>

\* C2: while the application runs the prompts last passed to
\* setWeightedPrompts are the grid's prompts; after main they are the prompts
\* built from DEFAULT_PROMPTS.
C2_HelperHasPrompts ==
    /\ pc = "running" => helperPrompts = prompts
    /\ op.name = "main" =>
          /\ Len(prompts) = Len(DefaultPrompts)
          /\ \A i \in 1..Len(prompts) :
                /\ prompts[i].key = PromptIdOf[i]
                /\ prompts[i].value.text = DefaultPrompts[i].text
                /\ prompts[i].value.color = DefaultPrompts[i].color
                /\ prompts[i].value.cc = i - 1
                /\ prompts[i].value.weight \in {0, One}

\* a text edit has reached the grid and the session helper
C2_Witness ==
    /\ op.name = "updateText"
    /\ "prompts-changed" \in Range(Types(events))
    /\ \E i \in 1..Len(helperPrompts) : helperPrompts[i].value.text = "Jazz"

Keys(ps) == [i \in 1..Len(ps) |-> ps[i].key]

Colors(ps) == [i \in 1..Len(ps) |-> ps[i].value.color]

\* C3: every entry of the grid's map holds a prompt whose promptId is the
\* entry's key, and no key occurs twice; a step that runs handlePromptChanged
\* leaves the keys and the colours as they are.
C3_KeyIsPromptId ==
    /\ [](\A i \in 1..Len(prompts) :
             /\ prompts[i].key = prompts[i].value.promptId
             /\ \A j \in 1..Len(prompts) : prompts[j].key = prompts[i].key => j = i)
    /\ [][op'.name \in {"updateWeightFromEvent", "updateText", "cc-message"} =>
             Keys(prompts') = Keys(prompts) /\ Colors(prompts') = Colors(prompts)]_vars

\* a cc-message changed a prompt of a loaded set of two
C3_Witness ==
    /\ op.name = "cc-message"
    /\ "prompts-changed" \in Range(Types(events))
    /\ Len(prompts) = 2
    /\ prompts[2].value.color = "#ffffff"

\* C8: the weight of every prompt of the grid's map lies in [0, 2].
C8_WeightInRange ==
    \A i \in 1..Len(prompts) :
        0 <= prompts[i].value.weight /\ prompts[i].value.weight <= Two

\* the events of the controller of index k
From(evs, k) == {i \in 1..Len(evs) : evs[i].type = "prompt-changed" /\ evs[i].from = k}

\* C6: a controller of the grid that is in learn mode when a cc-message arrives
\* takes the message's controller number, leaves learn mode, keeps its weight
\* and text, and dispatches 'prompt-changed' with the new cc, which the grid's
\* map then holds for its prompt.
C6_LearnBinds ==
    [][op'.name = "cc-message" =>
        \A k \in Live(controllers) :
            controllers[k].learnMode =>
                /\ controllers'[k].cc = op'.cc
                /\ ~controllers'[k].learnMode
                /\ controllers'[k].weight = controllers[k].weight
                /\ controllers'[k].text = controllers[k].text
                /\ \E i \in From(events', k) : events'[i].detail.cc = op'.cc
                /\ \E i \in 1..Len(prompts') :
                      /\ prompts'[i].key = controllers[k].promptId
                      /\ prompts'[i].value.cc = op'.cc]_vars

\* C7: at a cc-message with controller number c and value v a controller of the
\* grid that is not in learn mode gets the weight v / 127 * 2 and dispatches
\* 'prompt-changed' when its cc is c, and keeps its weight, cc and text and
\* dispatches nothing when its cc is not c.
C7_ControlChange ==
    [][op'.name = "cc-message" =>
        \A k \in Live(controllers) :
            ~controllers[k].learnMode =>
                IF controllers[k].cc = op'.cc
                THEN /\ controllers'[k].weight = 2 * op'.value
                     /\ From(events', k) # {}
                ELSE /\ controllers'[k].weight = controllers[k].weight
                     /\ controllers'[k].cc = controllers[k].cc
                     /\ controllers'[k].text = controllers[k].text
                     /\ From(events', k) = {}]_vars

====
